---- MODULE Spec2Model ----
(***************************************************************************)
(* Portfolio engine of APEX-Finance: Stock (stock.py) and StockPortfolio   *)
(* (stockportfolio.py), driven by the menu loop of main.py.                *)
(*                                                                         *)
(* Numbers are exact integers.  Monetary values are in whole units and     *)
(* percentages are carried in hundredths of a percent, so round(x, 2) is   *)
(* rounding to an integer number of hundredths.                            *)
(***************************************************************************)
EXTENDS Integers, Sequences, FiniteSets, TLC

VARIABLES
    stocks,      \* StockPortfolio.stocks: insertion-ordered dict, as a sequence of [key, value]
    op,          \* the operation that ran last
    arg_ticker,  \* its ticker_symbol argument (<<>> when it takes none)
    arg_amount,  \* its quantity / amount argument (0 when it takes none)
    data,        \* the provider snapshot handed to that operation's fetch
    err,         \* the exception it raised, or "none"
    ret,         \* the value it returned ("None" for a mutator)
    pre,         \* stocks as it was before that operation
    holdings,    \* the Holding rows of one Portfolio record, in id order (app.py)
    pre_holdings \* holdings as they were before the last request

vars == <<stocks, op, arg_ticker, arg_amount, data, err, ret, pre, holdings, pre_holdings>>

----------------------------------------------------------------------------
(* Bounds of the model *)

MaxAmount == 2      \* amounts passed by the caller range over -1..MaxAmount
MaxQty == 2         \* additions that would take a holding above MaxQty are not explored
MaxPrice == 2       \* the provider quotes prices 1..MaxPrice
NumSectors == 6     \* positions (one sector each) of the allocation specification
MaxSectorQty == 2   \* quantity of each of those positions ranges over 0..MaxSectorQty

Amounts == (0 - 1)..MaxAmount

----------------------------------------------------------------------------
(* Ticker strings are sequences of characters so that str.upper() is computed *)

UpperChar(c) ==
    CASE c = "f" -> "F"
      [] c = "t" -> "T"
      [] c = "z" -> "Z"
      [] OTHER -> c

Upper(s) == [i \in 1..Len(s) |-> UpperChar(s[i])]

TickerInputs == {<<"F">>, <<"f">>, <<"T">>, <<"Z">>}

----------------------------------------------------------------------------
(* MarketDataProvider: yf.Ticker(symbol).info is a mapping of named fields. *)
(* A snapshot is the set of keys it holds plus the values the engine         *)
(* computes with; the value of a key that is not held is never read.         *)

CompanyInfoFields ==
    {"longName", "sector", "industry", "phone", "longBusinessSummary", "website",
     "fullTimeEmployees", "companyOfficers", "address1", "city", "state", "country", "zip"}

ValuationFields ==
    {"trailingPE", "forwardPE", "priceToBook", "dividendYield", "dividendRate", "beta",
     "trailingEps", "targetMeanPrice", "recommendationKey"}

MarketDataFields ==
    {"currentPrice", "previousClose", "open", "dayHigh", "dayLow", "volume",
     "fiftyTwoWeekRange", "marketCap"}

FinancialsFields ==
    {"totalRevenue", "netIncomeToCommon", "totalCash", "totalDebt", "freeCashflow",
     "grossMargins", "operatingMargins", "returnOnEquity", "returnOnAssets", "debtToEquity"}

AllFields == CompanyInfoFields \cup ValuationFields \cup MarketDataFields \cup FinancialsFields

\* price keys the engine's callers know of; only currentPrice is ever read
PriceFields == {"currentPrice", "regularMarketPrice", "navPrice"}

Snapshot(keys, sector, price, beta, revenue) ==
    [transport |-> "ok", keys |-> keys, sector |-> sector,
     currentPrice |-> price, regularMarketPrice |-> price, navPrice |-> price,
     beta |-> beta, totalRevenue |-> revenue]

NoData == Snapshot({}, "", 0, 0, 0)

\* the provider call itself fails (network, timeout)
ProviderDown == [NoData EXCEPT !.transport = "down"]

FullSnapshot(sector, price) == Snapshot(AllFields, sector, price, 1, 1)

\* a quote with its price but without the valuation ratios
PatchySnapshot(sector, price) ==
    Snapshot(AllFields \ {"trailingPE", "forwardPE"}, sector, price, 1, 1)

\* a fund: no currentPrice, the price is under regularMarketPrice
FundSnapshot(sector, price) ==
    Snapshot((AllFields \ {"currentPrice"}) \cup {"regularMarketPrice"}, sector, price, 1, 1)

\* every key but a price
NoPriceSnapshot(sector) == Snapshot(AllFields \ {"currentPrice"}, sector, 0, 1, 1)

\* the sectors the provider may report: for T the "sector" key may hold an empty value
SectorsOf(symbol) == IF symbol = <<"F">> THEN {"Tech"} ELSE {"", "Tech"}

\* what the provider may answer for an (uppercase) symbol: Z is not a listed symbol,
\* and the quotes of T may come back incomplete
Snapshots(symbol) ==
    IF symbol = <<"Z">>
    THEN {NoData, ProviderDown}
    ELSE {FullSnapshot(s, p) : s \in SectorsOf(symbol), p \in 1..MaxPrice}
         \cup (IF symbol = <<"T">>
                THEN {PatchySnapshot("Tech", 1), FundSnapshot("Tech", 1), NoPriceSnapshot("Tech")}
                ELSE {})

----------------------------------------------------------------------------
(* dict helpers: a dict is a sequence of [key, value] records, keys unique *)

Keys(d) == {d[i].key : i \in 1..Len(d)}

IndexOf(d, k) == CHOOSE i \in 1..Len(d) : d[i].key = k

Get(d, k) == d[IndexOf(d, k)].value

\* d[k] = v : replaces in place, or appends a new key
Put(d, k, v) ==
    IF k \in Keys(d)
    THEN [d EXCEPT ![IndexOf(d, k)] = [key |-> k, value |-> v]]
    ELSE Append(d, [key |-> k, value |-> v])

Values(d) == [i \in 1..Len(d) |-> d[i].value]

----------------------------------------------------------------------------
(* class Stock *)

Raise(e, unchanged) == [err |-> e, val |-> unchanged]
Ok(v) == [err |-> "none", val |-> v]

\* Stock.__init__: a failure of the provider call propagates; every snapshot key is
\* read with data[...], so a missing key raises KeyError; the quantity is stored as
\* given; Change is built with the price of this snapshot.
Stock_init(ticker_symbol, quantity, d) ==
    IF d.transport = "down"
    THEN Raise("ConnectionError", <<>>)
    ELSE IF ~(AllFields \subseteq d.keys)
    THEN Raise("KeyError", <<>>)
    ELSE Ok([ticker_symbol |-> Upper(ticker_symbol),
             sector |-> d.sector,
             beta |-> d.beta,
             current_price |-> d.currentPrice,
             revenue |-> d.totalRevenue,
             quantity_held |-> quantity,
             change_price |-> d.currentPrice])

increase_quantity(stock, amount) ==
    IF amount <= 0
    THEN Raise("ValueError", stock)
    ELSE Ok([stock EXCEPT !.quantity_held = @ + amount])

\* decrease_quantity without the overdraft test
decrease_quantity_unchecked(stock, amount) ==
    IF amount <= 0
    THEN Raise("ValueError", stock)
    ELSE Ok([stock EXCEPT !.quantity_held = @ - amount])

decrease_quantity(stock, amount) ==
    IF amount > stock.quantity_held
    THEN Raise("ValueError", stock)
    ELSE IF amount <= 0
         THEN Raise("ValueError", stock)
         ELSE Ok([stock EXCEPT !.quantity_held = @ - amount])

\* get_total_value that forgets the quantity
get_total_value_price_only(stock) == stock.current_price

get_total_value(stock) == stock.current_price * stock.quantity_held

----------------------------------------------------------------------------
(* class StockPortfolio *)

\* add_stock that constructs Stock(ticker) with the default quantity of 1
add_stock_default_quantity(d, ticker_symbol, quantity, snapshot) ==
    LET ticker == Upper(ticker_symbol) IN
    IF ticker \in Keys(d)
    THEN LET r == increase_quantity(Get(d, ticker), quantity) IN
         IF r.err # "none" THEN Raise(r.err, d) ELSE Ok(Put(d, ticker, r.val))
    ELSE LET r == Stock_init(ticker, 1, snapshot) IN
         IF r.err # "none" THEN Raise(r.err, d) ELSE Ok(Put(d, ticker, r.val))

\* add_stock that keys the dict by the symbol as the caller spelled it
add_stock_key_as_spelled(d, ticker_symbol, quantity, snapshot) ==
    IF ticker_symbol \in Keys(d)
    THEN LET r == increase_quantity(Get(d, ticker_symbol), quantity) IN
         IF r.err # "none" THEN Raise(r.err, d) ELSE Ok(Put(d, ticker_symbol, r.val))
    ELSE LET r == Stock_init(ticker_symbol, quantity, snapshot) IN
         IF r.err # "none" THEN Raise(r.err, d) ELSE Ok(Put(d, ticker_symbol, r.val))

add_stock(d, ticker_symbol, quantity, snapshot) ==
    LET ticker == Upper(ticker_symbol) IN
    IF ticker \in Keys(d)
    THEN LET r == increase_quantity(Get(d, ticker), quantity) IN
         IF r.err # "none" THEN Raise(r.err, d) ELSE Ok(Put(d, ticker, r.val))
    ELSE LET r == Stock_init(ticker, quantity, snapshot) IN
         IF r.err # "none" THEN Raise(r.err, d) ELSE Ok(Put(d, ticker, r.val))

\* sell_stock that looks the ticker up inside the try block, so that the KeyError of a
\* missing ticker is reported as a failed transaction
sell_stock_absent_as_value_error(d, ticker_symbol, quantity) ==
    LET ticker == Upper(ticker_symbol) IN
    IF ticker \notin Keys(d)
    THEN Raise("ValueError", d)
    ELSE LET r == decrease_quantity(Get(d, ticker), quantity) IN
         IF r.err # "none" THEN Raise("ValueError", d) ELSE Ok(Put(d, ticker, r.val))

\* sell_stock that deletes a Stock whose quantity reaches 0
sell_stock_auto_remove(d, ticker_symbol, quantity) ==
    LET ticker == Upper(ticker_symbol) IN
    IF ticker \notin Keys(d)
    THEN Raise("KeyError", d)
    ELSE LET r == decrease_quantity(Get(d, ticker), quantity) IN
         IF r.err # "none" THEN Raise("ValueError", d)
         ELSE IF r.val.quantity_held = 0
              THEN Ok(SelectSeq(d, LAMBDA e : e.key # ticker))
              ELSE Ok(Put(d, ticker, r.val))

sell_stock(d, ticker_symbol, quantity) ==
    LET ticker == Upper(ticker_symbol) IN
    IF ticker \notin Keys(d)
    THEN Raise("KeyError", d)
    ELSE LET r == decrease_quantity(Get(d, ticker), quantity) IN
         IF r.err # "none" THEN Raise("ValueError", d) ELSE Ok(Put(d, ticker, r.val))

\* StockPortfolio defines no remove_stock: the call main.py makes raises AttributeError
remove_stock(d, ticker_symbol) == Raise("AttributeError", d)

RECURSIVE SumTotalValue(_)
SumTotalValue(vs) ==
    IF Len(vs) = 0 THEN 0 ELSE get_total_value(Head(vs)) + SumTotalValue(Tail(vs))

get_portfolio_value(d) ==
    IF Len(d) = 0 THEN 0 ELSE SumTotalValue(Values(d))

\* the key a Stock is grouped under when the total is not zero: sector or "Unknown"
SectorOrUnknown(stock) == IF stock.sector = "" THEN "Unknown" ELSE stock.sector

\* sector_value_dict[sector] after the loop over self.stocks.values()
RECURSIVE SectorValue(_, _)
SectorValue(vs, sector) ==
    IF Len(vs) = 0
    THEN 0
    ELSE (IF SectorOrUnknown(Head(vs)) = sector THEN get_total_value(Head(vs)) ELSE 0)
         + SectorValue(Tail(vs), sector)

FloorDiv(n, m) == IF n >= 0 THEN n \div m ELSE 0 - (((0 - n) + m - 1) \div m)

\* v / total * 100 in hundredths, as numerator over a positive denominator
PctNum(v, total) == IF total < 0 THEN 0 - (v * 10000) ELSE v * 10000
PctDen(total) == IF total < 0 THEN 0 - total ELSE total

\* whether v / total * 100 lies exactly half way between two hundredths
IsTie(v, total) ==
    LET n == PctNum(v, total)
        m == PctDen(total)
    IN  2 * (n - FloorDiv(n, m) * m) = m

\* truncation to two decimals in place of rounding
round_2_truncate(v, total, up) == FloorDiv(PctNum(v, total), PctDen(total))

\* round((v / total) * 100, 2), in hundredths.  On a tie the float that the division
\* produced decides the direction; up is the direction it took.
round_2(v, total, up) ==
    LET n == PctNum(v, total)
        m == PctDen(total)
        q == FloorDiv(n, m)
        r == n - q * m
    IN  IF 2 * r < m THEN q
        ELSE IF 2 * r > m THEN q + 1
        ELSE IF up THEN q + 1 ELSE q

\* the buckets whose percentage is a rounding tie
TieBuckets(d) ==
    LET total == get_portfolio_value(d) IN
    IF total = 0
    THEN {}
    ELSE {s \in {SectorOrUnknown(Values(d)[i]) : i \in 1..Len(d)} :
             IsTie(SectorValue(Values(d), s), total)}

\* the returned dict, as a function from sector name to hundredths of a percent
holding_by_sector(d, up) ==
    IF Len(d) = 0
    THEN <<>>
    ELSE LET total == get_portfolio_value(d) IN
         IF total = 0
         THEN [s \in {Values(d)[i].sector : i \in 1..Len(d)} |-> 0]
         ELSE [s \in {SectorOrUnknown(Values(d)[i]) : i \in 1..Len(d)} |->
                  round_2(SectorValue(Values(d), s), total, s \in DOMAIN up /\ up[s])]

----------------------------------------------------------------------------

Init ==
    /\ stocks = <<>>
    /\ op = "init"
    /\ arg_ticker = <<>>
    /\ arg_amount = 0
    /\ data = NoData
    /\ err = "none"
    /\ ret = "None"
    /\ pre = <<>>
    /\ holdings = <<>>
    /\ pre_holdings = <<>>

Held(d, k) == IF k \in Keys(d) THEN Get(d, k).quantity_held ELSE 0

\* add_stock asks the provider only when it constructs a Stock
Fetch(d, symbol) == IF symbol \in Keys(d) THEN {NoData} ELSE Snapshots(symbol)

AddStock(t, q) ==
    /\ Held(stocks, Upper(t)) + q <= MaxQty
    /\ \E snapshot \in Fetch(stocks, Upper(t)) :
          LET r == add_stock(stocks, t, q, snapshot) IN
          /\ stocks' = r.val
          /\ err' = r.err
          /\ data' = snapshot
    /\ op' = "add_stock"
    /\ arg_ticker' = t
    /\ arg_amount' = q
    /\ ret' = "None"
    /\ pre' = stocks
    /\ UNCHANGED <<holdings, pre_holdings>>

SellStock(t, q) ==
    /\ LET r == sell_stock(stocks, t, q) IN
          /\ stocks' = r.val
          /\ err' = r.err
    /\ op' = "sell_stock"
    /\ arg_ticker' = t
    /\ arg_amount' = q
    /\ data' = NoData
    /\ ret' = "None"
    /\ pre' = stocks
    /\ UNCHANGED <<holdings, pre_holdings>>

RemoveStock(t) ==
    /\ LET r == remove_stock(stocks, t) IN
          /\ stocks' = r.val
          /\ err' = r.err
    /\ op' = "remove_stock"
    /\ arg_ticker' = t
    /\ arg_amount' = 0
    /\ data' = NoData
    /\ ret' = "None"
    /\ pre' = stocks
    /\ UNCHANGED <<holdings, pre_holdings>>

GetPortfolioValue ==
    /\ ret' = get_portfolio_value(stocks)
    /\ op' = "get_portfolio_value"
    /\ arg_ticker' = <<>>
    /\ arg_amount' = 0
    /\ data' = NoData
    /\ err' = "none"
    /\ pre' = stocks
    /\ UNCHANGED <<holdings, pre_holdings>>
    /\ UNCHANGED stocks

HoldingBySector ==
    /\ \E up \in [TieBuckets(stocks) -> BOOLEAN] : ret' = holding_by_sector(stocks, up)
    /\ op' = "holding_by_sector"
    /\ arg_ticker' = <<>>
    /\ arg_amount' = 0
    /\ data' = NoData
    /\ err' = "none"
    /\ pre' = stocks
    /\ UNCHANGED <<holdings, pre_holdings>>
    /\ UNCHANGED stocks

\* stock.increase_quantity(amount) on the Stock held under key k
IncreaseQuantity(k, amount) ==
    /\ k \in Keys(stocks)
    /\ Held(stocks, k) + amount <= MaxQty
    /\ LET r == increase_quantity(Get(stocks, k), amount) IN
          /\ stocks' = Put(stocks, k, r.val)
          /\ err' = r.err
    /\ op' = "increase_quantity"
    /\ arg_ticker' = k
    /\ arg_amount' = amount
    /\ data' = NoData
    /\ ret' = "None"
    /\ pre' = stocks
    /\ UNCHANGED <<holdings, pre_holdings>>

\* stock.decrease_quantity(amount) on the Stock held under key k
DecreaseQuantity(k, amount) ==
    /\ k \in Keys(stocks)
    /\ LET r == decrease_quantity(Get(stocks, k), amount) IN
          /\ stocks' = Put(stocks, k, r.val)
          /\ err' = r.err
    /\ op' = "decrease_quantity"
    /\ arg_ticker' = k
    /\ arg_amount' = amount
    /\ data' = NoData
    /\ ret' = "None"
    /\ pre' = stocks
    /\ UNCHANGED <<holdings, pre_holdings>>

Next ==
    \/ \E t \in TickerInputs, q \in Amounts : AddStock(t, q)
    \/ \E t \in TickerInputs, q \in Amounts : SellStock(t, q)
    \/ \E t \in TickerInputs : RemoveStock(t)
    \/ \E k \in Keys(stocks), a \in Amounts : IncreaseQuantity(k, a)
    \/ \E k \in Keys(stocks), a \in Amounts : DecreaseQuantity(k, a)
    \/ GetPortfolioValue
    \/ HoldingBySector

Spec == Init /\ [][Next]_vars

----------------------------------------------------------------------------
(* Sector allocation over portfolios of up to NumSectors positions, one      *)
(* sector each: holding_by_sector and get_portfolio_value as pure functions  *)
(* of the portfolio.                                                         *)

SectorTicker(i) == <<"S", ToString(i)>>

\* the first position's sector is present but empty
SectorLabel(i) == IF i = 1 THEN "" ELSE "Sector" \o ToString(i)

\* the first position is priced so that totals divisible by 32, and with them
\* percentages that end in exactly half a hundredth, occur
SectorPrice(i) == IF i = 1 THEN 31 ELSE 1

SectorPortfolio(qty) ==
    [i \in 1..Len(qty) |->
        [key |-> SectorTicker(i),
         value |-> [ticker_symbol |-> SectorTicker(i),
                    sector |-> SectorLabel(i),
                    beta |-> 1,
                    current_price |-> SectorPrice(i),
                    revenue |-> 1,
                    quantity_held |-> qty[i],
                    change_price |-> SectorPrice(i)]]]

InitSector ==
    /\ \E n \in 0..NumSectors :
          \E qty \in [1..n -> 0..MaxSectorQty] : stocks = SectorPortfolio(qty)
    /\ op = "init"
    /\ arg_ticker = <<>>
    /\ arg_amount = 0
    /\ data = NoData
    /\ err = "none"
    /\ ret = "None"
    /\ pre = <<>>
    /\ holdings = <<>>
    /\ pre_holdings = <<>>

NextSector ==
    \/ GetPortfolioValue
    \/ HoldingBySector

SpecSector == InitSector /\ [][NextSector]_vars

----------------------------------------------------------------------------
(* One Position through its life: construction, refresh_data, get_change and *)
(* the risk metrics the tests and the portfolio read from it.                *)

MaxBeta == 1        \* a caller sets valuation.beta to 0..MaxBeta
MaxCloses == 2      \* a fetched price history has 0..MaxCloses rows

\* the key sets a refreshed snapshot may hold: complete, or short of one key that
\* CompanyInfo, ValuationMetrics, MarketData or Financials reads
RefreshKeys ==
    {AllFields, AllFields \ {"longName"}, AllFields \ {"trailingPE"},
     AllFields \ {"currentPrice"}, AllFields \ {"totalRevenue"}}

\* what the provider may answer when a held symbol is fetched again
RefreshSnapshots(symbol) ==
    {Snapshot(keys, s, p, 1, 1) :
        keys \in RefreshKeys, s \in SectorsOf(symbol), p \in 1..MaxPrice}
    \cup {NoData, ProviderDown}

\* Stock.refresh_data: the fetch and the four constructors run one after the other
\* with no handler around them, each assignment taking effect before the next
\* constructor reads its keys; self.change is not rebuilt.
refresh_data(stock, d) ==
    IF d.transport = "down"
    THEN Raise("ConnectionError", stock)
    ELSE IF ~(CompanyInfoFields \subseteq d.keys)
    THEN Raise("KeyError", stock)
    ELSE LET s1 == [stock EXCEPT !.sector = d.sector] IN
         IF ~(ValuationFields \subseteq d.keys)
         THEN Raise("KeyError", s1)
         ELSE LET s2 == [s1 EXCEPT !.beta = d.beta] IN
              IF ~(MarketDataFields \subseteq d.keys)
              THEN Raise("KeyError", s2)
              ELSE LET s3 == [s2 EXCEPT !.current_price = d.currentPrice] IN
                   IF ~(FinancialsFields \subseteq d.keys)
                   THEN Raise("KeyError", s3)
                   ELSE Ok([s3 EXCEPT !.revenue = d.totalRevenue])

\* str.lower() on the period strings callers pass
Lower(period) ==
    CASE period = "Monthly" -> "monthly"
      [] OTHER -> period

\* int(period): the day count, or ValueError when the string is not an integer
ParseInt(period) ==
    CASE period = "7" -> Ok(7)
      [] period = "0" -> Ok(0)
      [] OTHER -> Raise("ValueError", "None")

PeriodInputs == {"daily", "Monthly", "six_month", "yearly", "7", "0", "week"}

\* the window Stock.get_change hands to calculate_change, or ValueError
WindowDays(period) ==
    LET p == Lower(period) IN
    CASE p = "daily" -> Ok(1)
      [] p = "monthly" -> Ok(30)
      [] p = "six_month" -> Ok(180)
      [] p = "yearly" -> Ok(365)
      [] OTHER -> ParseInt(p)

Min(a, b) == IF a < b THEN a ELSE b

\* the answers of yf.Ticker(ticker).history(start, end) for a window of days days:
\* its Close column, oldest row first and at most one row a day, or a failed call
Histories(days) ==
    {[transport |-> "ok", closes |-> c] :
        c \in UNION {[1..n -> 0..MaxPrice] : n \in 0..Min(days, MaxCloses)}}
    \cup {[transport |-> "down", closes |-> <<>>]}

\* float division by a numpy zero: no exception, an infinity or not-a-number
DivideByZero(dollar) ==
    IF dollar > 0 THEN "inf" ELSE IF dollar < 0 THEN "-inf" ELSE "nan"

\* Change.calculate_change: the first Close of the window is the baseline; iloc[0] on
\* an empty column raises IndexError; the price is the one Change was built with.
\* dollar is in whole units, percent in hundredths of a percent.
calculate_change(stock, hist, up) ==
    IF hist.transport = "down"
    THEN Raise("ConnectionError", "None")
    ELSE IF Len(hist.closes) = 0
    THEN Raise("IndexError", "None")
    ELSE LET change_price == hist.closes[1]
             dollar == stock.change_price - change_price
         IN  IF change_price = 0
             THEN Ok(<<dollar, DivideByZero(dollar)>>)
             ELSE Ok(<<dollar, IF dollar >= 0
                               THEN round_2(dollar, change_price, up)
                               ELSE 0 - round_2(0 - dollar, change_price, up)>>)

\* the directions round() may take on the percentage: both when it is a tie
ChangeTies(stock, hist) ==
    IF /\ hist.transport = "ok"
       /\ Len(hist.closes) > 0
       /\ hist.closes[1] # 0
       /\ IsTie(stock.change_price - hist.closes[1], hist.closes[1])
    THEN BOOLEAN
    ELSE {FALSE}

\* no fetch is made for a period that names no window
HistoriesFor(period) ==
    IF WindowDays(period).err = "none"
    THEN Histories(WindowDays(period).val)
    ELSE {[transport |-> "ok", closes |-> <<>>]}

\* Stock.get_change; hist is the provider's answer for the window of the period
get_change(stock, period, hist, up) ==
    IF WindowDays(period).err # "none"
    THEN Raise("ValueError", "None")
    ELSE calculate_change(stock, hist, up)

\* Stock defines no risk_metrics attribute and no module defines a RiskMetrics class:
\* reading stock.risk_metrics raises AttributeError
risk_metrics(stock) == Raise("AttributeError", "None")

\* stock.refresh_data() on the Stock held under key k
RefreshData(k) ==
    /\ k \in Keys(stocks)
    /\ \E snapshot \in RefreshSnapshots(k) :
          LET r == refresh_data(Get(stocks, k), snapshot) IN
          /\ stocks' = Put(stocks, k, r.val)
          /\ err' = r.err
          /\ data' = snapshot
    /\ op' = "refresh_data"
    /\ arg_ticker' = k
    /\ arg_amount' = 0
    /\ ret' = "None"
    /\ pre' = stocks
    /\ UNCHANGED <<holdings, pre_holdings>>

\* stock.get_change(period) on the Stock held under key k
GetChange(k, period) ==
    /\ k \in Keys(stocks)
    /\ \E hist \in HistoriesFor(period) :
       \E up \in ChangeTies(Get(stocks, k), hist) :
          LET r == get_change(Get(stocks, k), period, hist, up) IN
          /\ ret' = r.val
          /\ err' = r.err
          /\ data' = [transport |-> hist.transport, closes |-> hist.closes,
                      period |-> period]
    /\ op' = "get_change"
    /\ arg_ticker' = k
    /\ arg_amount' = 0
    /\ pre' = stocks
    /\ UNCHANGED <<holdings, pre_holdings>>
    /\ UNCHANGED stocks

\* s.valuation.beta = beta, then s.risk_metrics.get_treynor_ratio()
GetTreynorRatio(k, beta) ==
    /\ k \in Keys(stocks)
    /\ LET s == [Get(stocks, k) EXCEPT !.beta = beta]
           r == risk_metrics(s)
       IN  /\ stocks' = Put(stocks, k, s)
           /\ ret' = r.val
           /\ err' = r.err
    /\ op' = "get_treynor_ratio"
    /\ arg_ticker' = k
    /\ arg_amount' = beta
    /\ data' = NoData
    /\ pre' = stocks
    /\ UNCHANGED <<holdings, pre_holdings>>

\* s.risk_metrics.get_sharpe_ratio()
GetSharpeRatio(k) ==
    /\ k \in Keys(stocks)
    /\ LET r == risk_metrics(Get(stocks, k)) IN
          /\ ret' = r.val
          /\ err' = r.err
    /\ op' = "get_sharpe_ratio"
    /\ arg_ticker' = k
    /\ arg_amount' = 0
    /\ data' = NoData
    /\ pre' = stocks
    /\ UNCHANGED <<holdings, pre_holdings>>
    /\ UNCHANGED stocks

NextPosition ==
    \/ \E q \in 1..MaxQty : AddStock(<<"T">>, q)
    \/ \E k \in Keys(stocks) : RefreshData(k)
    \/ \E k \in Keys(stocks), period \in PeriodInputs : GetChange(k, period)
    \/ \E k \in Keys(stocks), beta \in 0..MaxBeta : GetTreynorRatio(k, beta)
    \/ \E k \in Keys(stocks) : GetSharpeRatio(k)

SpecPosition == Init /\ [][NextPosition]_vars

----------------------------------------------------------------------------
(* Portfolio-wide history and risk statistics.  A price series is a function *)
(* from the dates that have a row to the Close of that date; a frame with    *)
(* the single column TotalValue is a function from its index to that column. *)

MaxDates == 2       \* the dates of a history window are 1..MaxDates

EmptyFrame == <<>>

\* what the provider would answer for the history of one Position: a failed call,
\* or a row for any subset of the dates; prices are flat over the window, each
\* Close being the Position's current price
PriceHistories(stock) ==
    {[transport |-> "ok", closes |-> [t \in dates |-> stock.current_price]] :
        dates \in SUBSET (1..MaxDates)}
    \cup {[transport |-> "down", closes |-> EmptyFrame]}

\* stock.history.get_days(days): History defines create_df, get_clean_data and the
\* named windows but no get_days, so the call raises AttributeError before any fetch
get_days(hist) == Raise("AttributeError", EmptyFrame)

\* the loop of get_portfolio_history from the i-th item on: an exception inside the
\* body skips the ticker; the first non-empty series becomes the column and with it
\* the index; a later series is added with fill_value=0 and the sum is assigned back
\* to the column, which keeps the rows of the existing index only
RECURSIVE MergeHistories(_, _, _, _)
MergeHistories(d, hists, i, combined_df) ==
    IF i > Len(d)
    THEN combined_df
    ELSE LET stock == d[i].value
             hist_data == get_days(hists[d[i].key])
         IN  IF hist_data.err # "none"
             THEN MergeHistories(d, hists, i + 1, combined_df)
             ELSE IF DOMAIN hist_data.val = {}
             THEN MergeHistories(d, hists, i + 1, combined_df)
             ELSE LET prices == hist_data.val
                      stock_value_series ==
                          [t \in DOMAIN prices |-> prices[t] * stock.quantity_held]
                  IN  IF DOMAIN combined_df = {}
                      THEN MergeHistories(d, hists, i + 1, stock_value_series)
                      ELSE MergeHistories(d, hists, i + 1,
                               [t \in DOMAIN combined_df |->
                                   combined_df[t]
                                   + (IF t \in DOMAIN stock_value_series
                                      THEN stock_value_series[t] ELSE 0)])

\* sort_index().ffill().dropna() of a frame whose column holds no missing value
\* leaves its rows as they are, in index order
get_portfolio_history(d, hists) ==
    IF Len(d) = 0
    THEN EmptyFrame
    ELSE MergeHistories(d, hists, 1, EmptyFrame)

\* the loop of get_risk_reward_data: stock.risk_metrics is read outside the try
RECURSIVE RiskRewardStats(_, _)
RiskRewardStats(d, i) ==
    IF i > Len(d)
    THEN Ok(<<>>)
    ELSE LET rm == risk_metrics(d[i].value) IN
         IF rm.err # "none"
         THEN Raise(rm.err, "None")
         ELSE LET rest == RiskRewardStats(d, i + 1) IN
              IF rest.err # "none" \/ rm.val = "None"
              THEN rest
              ELSE Ok(<<[ticker |-> d[i].key, metrics |-> rm.val]>> \o rest.val)

get_risk_reward_data(d) == RiskRewardStats(d, 1)

\* the history answers for every held ticker
HistoryAnswers(d) ==
    {h \in [Keys(d) -> UNION {PriceHistories(d[i].value) : i \in 1..Len(d)}] :
        \A i \in 1..Len(d) : h[d[i].key] \in PriceHistories(d[i].value)}

GetPortfolioHistory ==
    /\ \E hists \in HistoryAnswers(stocks) :
          /\ ret' = get_portfolio_history(stocks, hists)
          /\ data' = hists
    /\ op' = "get_portfolio_history"
    /\ arg_ticker' = <<>>
    /\ arg_amount' = 0
    /\ err' = "none"
    /\ pre' = stocks
    /\ UNCHANGED <<holdings, pre_holdings>>
    /\ UNCHANGED stocks

GetRiskRewardData ==
    /\ LET r == get_risk_reward_data(stocks) IN
          /\ ret' = r.val
          /\ err' = r.err
    /\ op' = "get_risk_reward_data"
    /\ arg_ticker' = <<>>
    /\ arg_amount' = 0
    /\ data' = NoData
    /\ pre' = stocks
    /\ UNCHANGED <<holdings, pre_holdings>>
    /\ UNCHANGED stocks

NextHistory ==
    \/ \E t \in {<<"F">>, <<"T">>}, q \in 1..MaxQty : AddStock(t, q)
    \/ GetPortfolioHistory
    \/ GetRiskRewardData

SpecHistory == Init /\ [][NextHistory]_vars

----------------------------------------------------------------------------
(* Web layer (app.py): the Holding rows persisted for one Portfolio record,  *)
(* and build_portfolio_logic, which replays them into a StockPortfolio.      *)

MaxHoldings == 3    \* a persisted Portfolio has 0..MaxHoldings Holding rows

\* a Holding row; ticker is stored in upper case by every route that inserts one
Holding(id, ticker, quantity) == [id |-> id, ticker |-> ticker, quantity |-> quantity]

\* the tickers of the persisted rows, and what the provider answers when one of them
\* is loaded: its quote, or a failed call
LoadTickers == {<<"F">>, <<"T">>}
LoadSnapshots == {FullSnapshot("Tech", 1), ProviderDown}

\* the loop of build_portfolio_logic that gives up at the first holding that fails
RECURSIVE LoadUntilFailure(_, _, _, _, _)
LoadUntilFailure(hs, snaps, i, p_logic, log) ==
    IF i > Len(hs)
    THEN [stocks |-> p_logic, log |-> log]
    ELSE LET r == add_stock(p_logic, hs[i].ticker, hs[i].quantity, snaps[i]) IN
         IF r.err # "none"
         THEN [stocks |-> r.val, log |-> Append(log, r.err)]
         ELSE LoadUntilFailure(hs, snaps, i + 1, r.val, Append(log, r.err))

\* build_portfolio_logic that gives up at the first holding that fails
build_portfolio_logic_stop_at_failure(hs, snaps) ==
    LoadUntilFailure(hs, snaps, 1, <<>>, <<>>)

\* the loop of build_portfolio_logic from the i-th holding on: add_stock re-raises,
\* the except prints the error and continues with the portfolio as add_stock left
\* it; log collects the outcome of each holding
RECURSIVE LoadHoldings(_, _, _, _, _)
LoadHoldings(hs, snaps, i, p_logic, log) ==
    IF i > Len(hs)
    THEN [stocks |-> p_logic, log |-> log]
    ELSE LET r == add_stock(p_logic, hs[i].ticker, hs[i].quantity, snaps[i]) IN
         LoadHoldings(hs, snaps, i + 1, r.val, Append(log, r.err))

\* snaps[i] is the provider's answer while the i-th holding is loaded
build_portfolio_logic(hs, snaps) == LoadHoldings(hs, snaps, 1, <<>>, <<>>)

BuildPortfolioLogic ==
    /\ \E snaps \in [1..Len(holdings) -> LoadSnapshots] :
          LET r == build_portfolio_logic(holdings, snaps) IN
          /\ stocks' = r.stocks
          /\ ret' = r.log
          /\ data' = snaps
    /\ op' = "build_portfolio_logic"
    /\ arg_ticker' = <<>>
    /\ arg_amount' = 0
    /\ err' = "none"
    /\ pre' = <<>>
    /\ pre_holdings' = holdings
    /\ UNCHANGED holdings

\* the rows a Portfolio record may hold: any tickers, duplicates included, with any
\* quantities (a CSV import stores float(row['quantity']) as it is)
HoldingLists ==
    UNION {{[i \in 1..n |-> Holding(i, t[i], q[i])] :
               t \in [1..n -> LoadTickers], q \in [1..n -> Amounts]} :
           n \in 0..MaxHoldings}

InitLoad ==
    /\ stocks = <<>>
    /\ op = "init"
    /\ arg_ticker = <<>>
    /\ arg_amount = 0
    /\ data = NoData
    /\ err = "none"
    /\ ret = "None"
    /\ pre = <<>>
    /\ holdings \in HoldingLists
    /\ pre_holdings = <<>>

NextLoad == BuildPortfolioLogic

SpecLoad == InitLoad /\ [][NextLoad]_vars

----------------------------------------------------------------------------
(* Web layer (app.py): the /add_stock and /sell_stock routes on the Holding  *)
(* rows of one Portfolio record.                                             *)

MaxHoldingId == 2   \* rows are inserted while the next primary key is at most MaxHoldingId

\* str.strip() of a ticker: blanks are dropped from both ends
RECURSIVE StripLeft(_)
StripLeft(s) ==
    IF Len(s) > 0 /\ Head(s) = " " THEN StripLeft(Tail(s)) ELSE s

RECURSIVE StripRight(_)
StripRight(s) ==
    IF Len(s) > 0 /\ s[Len(s)] = " " THEN StripRight(SubSeq(s, 1, Len(s) - 1)) ELSE s

Strip(s) == StripRight(StripLeft(s))

FormTickers == {<<"F">>, <<" ", "f">>, <<"T">>, <<"Z">>}

\* the 'quantity' field of a form: absent, empty, not a number, or a number
FormQuantities ==
    {[kind |-> k, value |-> 0] : k \in {"missing", "empty", "text"}}
    \cup {[kind |-> "number", value |-> n] : n \in Amounts}

\* float(qty_str)
ParseFloat(qty_str) ==
    CASE qty_str.kind = "missing" -> Raise("TypeError", 0)
      [] qty_str.kind = "number" -> Ok(qty_str.value)
      [] OTHER -> Raise("ValueError", 0)

\* float(qty_input) if qty_input else 0
SellQuantity(qty_input) ==
    IF qty_input.kind \in {"missing", "empty"} THEN Ok(0) ELSE ParseFloat(qty_input)

\* the primary key the database gives the next row
NextId(hs) == IF Len(hs) = 0 THEN 1 ELSE hs[Len(hs)].id + 1

\* Holding.query.filter_by(ticker=ticker_symbol).first(): the index of the row, 0 if none
FirstHolding(hs, ticker_symbol) ==
    IF \E i \in 1..Len(hs) : hs[i].ticker = ticker_symbol
    THEN CHOOSE i \in 1..Len(hs) :
            /\ hs[i].ticker = ticker_symbol
            /\ \A j \in 1..Len(hs) : hs[j].ticker = ticker_symbol => i <= j
    ELSE 0

\* the /add_stock route: the ticker is validated by constructing Stock(ticker, 0),
\* the quantity is float(qty_str) with no test of its sign; every exception is
\* caught and flashed, and nothing is committed then
route_add_stock(hs, ticker, qty_str, snapshot) ==
    LET ticker_symbol == Strip(Upper(ticker))
        temp_stock == Stock_init(ticker_symbol, 0, snapshot)
        quantity == ParseFloat(qty_str)
        existing == FirstHolding(hs, ticker_symbol)
    IN  IF temp_stock.err # "none" THEN Raise(temp_stock.err, hs)
        ELSE IF quantity.err # "none" THEN Raise(quantity.err, hs)
        ELSE IF existing # 0
        THEN Ok([hs EXCEPT ![existing].quantity = @ + quantity.val])
        ELSE Ok(Append(hs, Holding(NextId(hs), ticker_symbol, quantity.val)))

\* the /sell_stock route: 404 for an unknown id; sell_all deletes the row; otherwise
\* the row is deleted when sell_qty >= quantity and reduced by sell_qty when not,
\* with no test of the sign of sell_qty
route_sell_stock(hs, holding_id, sell_all, qty_input) ==
    IF ~(\E i \in 1..Len(hs) : hs[i].id = holding_id)
    THEN Raise("NotFound", hs)
    ELSE LET i == CHOOSE j \in 1..Len(hs) : hs[j].id = holding_id
             deleted == SelectSeq(hs, LAMBDA h : h.id # holding_id)
             sell_qty == SellQuantity(qty_input)
         IN  IF sell_all THEN Ok(deleted)
             ELSE IF sell_qty.err # "none" THEN Raise(sell_qty.err, hs)
             ELSE IF sell_qty.val >= hs[i].quantity THEN Ok(deleted)
             ELSE Ok([hs EXCEPT ![i].quantity = @ - sell_qty.val])

\* quantities below -1 or above MaxQty are not explored
WithinBounds(hs) ==
    /\ \A i \in 1..Len(hs) : hs[i].quantity \in (0 - 1)..MaxQty
    /\ NextId(hs) <= MaxHoldingId + 1

RouteAddStock(ticker, qty_str) ==
    /\ \E snapshot \in Snapshots(Strip(Upper(ticker))) :
          LET r == route_add_stock(holdings, ticker, qty_str, snapshot) IN
          /\ WithinBounds(r.val)
          /\ holdings' = r.val
          /\ err' = r.err
          /\ data' = snapshot
    /\ op' = "/add_stock"
    /\ arg_ticker' = ticker
    /\ arg_amount' = qty_str
    /\ ret' = "redirect"
    /\ pre_holdings' = holdings
    /\ UNCHANGED <<stocks, pre>>

RouteSellStock(holding_id, sell_all, qty_input) ==
    /\ LET r == route_sell_stock(holdings, holding_id, sell_all, qty_input) IN
          /\ WithinBounds(r.val)
          /\ holdings' = r.val
          /\ err' = r.err
    /\ op' = "/sell_stock"
    /\ arg_ticker' = <<>>
    /\ arg_amount' = qty_input
    /\ data' = [holding_id |-> holding_id, sell_all |-> sell_all]
    /\ ret' = "redirect"
    /\ pre_holdings' = holdings
    /\ UNCHANGED <<stocks, pre>>

NextWeb ==
    \/ \E t \in FormTickers, q \in FormQuantities : RouteAddStock(t, q)
    \/ \E id \in 1..MaxHoldingId, all \in BOOLEAN, q \in FormQuantities :
          RouteSellStock(id, all, q)

SpecWeb == Init /\ [][NextWeb]_vars

----------------------------------------------------------------------------
(* Properties *)

Position(d, k) == Get(d, k)

\* the ticker key the last operation addressed
LastKey == Upper(arg_ticker)

\* every Stock of d other than the one under k is in e, unchanged and under its key
OthersUntouched(d, e, k) ==
    \A j \in Keys(d) \ {k} : j \in Keys(e) /\ Position(e, j) = Position(d, j)

\* sum of current_price * quantity_held over a set of keys of d
RECURSIVE ValueOfKeys(_, _)
ValueOfKeys(d, ks) ==
    IF ks = {}
    THEN 0
    ELSE LET k == CHOOSE x \in ks : TRUE IN
         Position(d, k).current_price * Position(d, k).quantity_held
            + ValueOfKeys(d, ks \ {k})

\* sum of the values of a function over a subset of its domain
RECURSIVE SumOf(_, _)
SumOf(f, ks) ==
    IF ks = {}
    THEN 0
    ELSE LET k == CHOOSE x \in ks : TRUE IN f[k] + SumOf(f, ks \ {k})

Abs(x) == IF x < 0 THEN 0 - x ELSE x

\* C1: the quantity held by every Position in the Portfolio is never negative.
C1_QuantityNeverNegative ==
    \A i \in 1..Len(stocks) : stocks[i].value.quantity_held >= 0

\* C2: increase_quantity with amount <= 0, and decrease_quantity with amount <= 0 or
\* amount above the quantity held, raise ValueError and leave the quantity as it was;
\* decrease_quantity of exactly the quantity held succeeds and leaves 0.
C2_InvalidAmountRejected ==
    /\ (op = "increase_quantity" /\ arg_amount <= 0)
          => (err = "ValueError" /\ stocks = pre)
    /\ (op = "decrease_quantity"
          /\ (arg_amount <= 0 \/ arg_amount > Position(pre, arg_ticker).quantity_held))
          => (err = "ValueError" /\ stocks = pre)
    /\ (op = "decrease_quantity"
          /\ arg_amount > 0 /\ arg_amount = Position(pre, arg_ticker).quantity_held)
          => (err = "none" /\ Position(stocks, arg_ticker).quantity_held = 0)

\* C2 witness: a decrease by more than a positive holding was refused
C2_OverdraftRefused ==
    /\ op = "decrease_quantity"
    /\ Position(pre, arg_ticker).quantity_held > 0
    /\ arg_amount > Position(pre, arg_ticker).quantity_held
    /\ err = "ValueError"

\* C3: add_stock with a non-positive quantity or an unusable ticker raises, whether
\* the ticker is present or new, and a failed add_stock leaves the Portfolio as it was.
C3_AddStockRejectsBadInput ==
    op = "add_stock" =>
        /\ (arg_amount <= 0 \/ (LastKey \notin Keys(pre) /\ data = NoData)) => err # "none"
        /\ err # "none" => stocks = pre

\* C4: a successful add_stock(T, q) with q > 0 raises get_portfolio_value() by
\* exactly price(T) * q, raises the quantity of T by exactly q and changes no other
\* Position; for a new ticker price(T) is the price the provider quoted.
C4_AddStockRaisesValue ==
    (op = "add_stock" /\ err = "none" /\ arg_amount > 0) =>
        /\ LastKey \in Keys(stocks)
        /\ Keys(stocks) = Keys(pre) \cup {LastKey}
        /\ LastKey \notin Keys(pre) =>
              Position(stocks, LastKey).current_price = data.currentPrice
        /\ get_portfolio_value(stocks)
              = get_portfolio_value(pre) + Position(stocks, LastKey).current_price * arg_amount
        /\ Held(stocks, LastKey) = Held(pre, LastKey) + arg_amount
        /\ OthersUntouched(pre, stocks, LastKey)

\* C4 witness: a lowercase spelling of a ticker already held was added to, next to
\* another Position
C4_AddedToHeldTickerInLowerCase ==
    /\ op = "add_stock" /\ err = "none" /\ arg_amount > 0
    /\ arg_ticker # LastKey
    /\ LastKey \in Keys(pre)
    /\ Len(pre) = 2

\* C5: sell_stock for a ticker that is not in the Portfolio raises KeyError, a bad
\* quantity for a ticker that is present raises ValueError, and either failure leaves
\* the key set and all quantities as they were.
C5_SellStockFailures ==
    op = "sell_stock" =>
        /\ LastKey \notin Keys(pre) => (err = "KeyError" /\ stocks = pre)
        /\ (LastKey \in Keys(pre)
              /\ (arg_amount <= 0 \/ arg_amount > Held(pre, LastKey)))
              => (err = "ValueError" /\ stocks = pre)
        /\ err \in {"none", "KeyError", "ValueError"}
        /\ err # "none" => stocks = pre

\* C5 witness: a ticker that is not held was sold from a Portfolio that holds another
C5_SoldAbsentTicker ==
    /\ op = "sell_stock"
    /\ LastKey \notin Keys(pre)
    /\ Len(pre) > 0
    /\ err = "KeyError"

\* C6: sell_stock never removes a key; selling a Position's whole quantity leaves the
\* ticker present with quantity 0; only remove_stock can shrink the key set.
C6_SellNeverRemoves ==
    /\ op = "sell_stock" => Keys(stocks) = Keys(pre)
    /\ (op = "sell_stock" /\ err = "none" /\ arg_amount = Held(pre, LastKey))
          => (LastKey \in Keys(stocks) /\ Position(stocks, LastKey).quantity_held = 0)
    /\ ~(Keys(pre) \subseteq Keys(stocks)) => op = "remove_stock"

\* C6 witness: a whole holding was sold
C6_SoldEntireHolding ==
    /\ op = "sell_stock" /\ err = "none"
    /\ arg_amount > 0
    /\ arg_amount = Held(pre, LastKey)

\* C7: remove_stock deletes the entry of a ticker that is present, leaving the other
\* entries untouched, and raises KeyError, leaving the Portfolio unchanged, when the
\* ticker is absent.
C7_RemoveStockDeletes ==
    op = "remove_stock" =>
        IF LastKey \in Keys(pre)
        THEN /\ err = "none"
             /\ Keys(stocks) = Keys(pre) \ {LastKey}
             /\ OthersUntouched(pre, stocks, LastKey)
        ELSE err = "KeyError" /\ stocks = pre

\* C8: get_portfolio_value() returns the sum over all Positions of current price
\* times quantity held, returns 0 for an empty Portfolio, and never raises.
C8_PortfolioValueIsSum ==
    op = "get_portfolio_value" =>
        /\ err = "none"
        /\ ret = ValueOfKeys(stocks, Keys(stocks))
        /\ Len(stocks) = 0 => ret = 0

\* C8 witness: the value of a Portfolio of two Positions of different value was read
C8_ValuedTwoPositions ==
    /\ op = "get_portfolio_value"
    /\ Len(stocks) = 2
    /\ stocks[1].value.quantity_held > 1
    /\ stocks[2].value.current_price > 1
    /\ stocks[2].value.quantity_held > 0
    /\ ret > 0

\* C9 as stated: with a positive total the percentages of holding_by_sector() sum to
\* 100.00 within 0.01, and to 0 when the total is zero.
C9_SumWithinOneHundredth ==
    op = "holding_by_sector" =>
        /\ get_portfolio_value(stocks) > 0
              => Abs(SumOf(ret, DOMAIN ret) - 10000) <= 1
        /\ get_portfolio_value(stocks) = 0 => SumOf(ret, DOMAIN ret) = 0

\* C9 amended: with a positive total the percentages sum to 100.00 within 0.005 per
\* bucket, which is within 0.01 for up to three buckets; they sum to 0 when the total
\* is zero.
C9_SumWithinHalfHundredthPerBucket ==
    op = "holding_by_sector" =>
        /\ get_portfolio_value(stocks) > 0
              => /\ 2 * Abs(SumOf(ret, DOMAIN ret) - 10000) <= Cardinality(DOMAIN ret)
                 /\ Cardinality(DOMAIN ret) <= 3
                       => Abs(SumOf(ret, DOMAIN ret) - 10000) <= 1
        /\ get_portfolio_value(stocks) = 0 => SumOf(ret, DOMAIN ret) = 0

\* C9 witness: an allocation over at least five sectors whose percentages sum to
\* more than 100.01
C9_ManySectorsInexactSum ==
    /\ op = "holding_by_sector"
    /\ get_portfolio_value(stocks) > 0
    /\ Cardinality(DOMAIN ret) >= 5
    /\ SumOf(ret, DOMAIN ret) > 10001

\* the buckets the claim expects: each sector, "Unknown" standing for a missing one
ExpectedBuckets(d) ==
    {IF d[i].value.sector = "" THEN "Unknown" ELSE d[i].value.sector : i \in 1..Len(d)}

\* C10: holding_by_sector() reports a Position without a sector under "Unknown", and
\* when the total is exactly 0 it returns the buckets it would return for a positive
\* total, each with 0.
C10_UnknownBucketAlways ==
    op = "holding_by_sector" =>
        /\ DOMAIN ret = ExpectedBuckets(stocks)
        /\ get_portfolio_value(stocks) = 0 => \A s \in DOMAIN ret : ret[s] = 0

ConstructedFromSnapshot ==
    op = "add_stock" /\ LastKey \notin Keys(pre) /\ data.transport = "ok"

\* C12: constructing a Position from a snapshot that is empty or holds none of the
\* recognized price fields fails with ValueError or ConnectionError, and no Position
\* for that ticker is stored.
C12_UnusableSnapshotIsInvalidTicker ==
    (ConstructedFromSnapshot /\ data.keys \cap PriceFields = {})
        => (err \in {"ValueError", "ConnectionError"} /\ stocks = pre)

\* the price the fallback chain of the claim selects
ChainPrice(d) ==
    IF "currentPrice" \in d.keys THEN d.currentPrice
    ELSE IF "regularMarketPrice" \in d.keys THEN d.regularMarketPrice
    ELSE IF "navPrice" \in d.keys THEN d.navPrice
    ELSE 0

\* C13: constructing a Position from a snapshot that has at least one recognized price
\* field succeeds whatever other fields are missing, with the price taken from
\* currentPrice, else regularMarketPrice, else navPrice.
C13_PatchySnapshotConstructs ==
    (ConstructedFromSnapshot /\ data.keys \cap PriceFields # {})
        => /\ err = "none"
           /\ LastKey \in Keys(stocks)
           /\ Position(stocks, LastKey).current_price = ChainPrice(data)

\* the four parts of a Position's snapshot, and the same four of a provider answer
Parts(stock) == <<stock.sector, stock.beta, stock.current_price, stock.revenue>>
NewParts(d) == <<d.sector, d.beta, d.currentPrice, d.totalRevenue>>

\* C14: refresh_data returns without raising, leaves the four parts of the snapshot
\* either all at the newly fetched values or all at their previous values, and does
\* not change the quantity held.
C14_RefreshIsAllOrNothing ==
    op = "refresh_data" =>
        LET new == Position(stocks, arg_ticker)
            old == Position(pre, arg_ticker)
        IN  /\ err = "none"
            /\ Parts(new) = NewParts(data) \/ Parts(new) = Parts(old)
            /\ (data.transport = "down" \/ ~(AllFields \subseteq data.keys))
                  => Parts(new) = Parts(old)
            /\ new.quantity_held = old.quantity_held

\* C15: get_change over a named window or an integer day count never raises, and
\* returns (0.0, 0.0) when the fetched history is empty or its baseline price is zero.
C15_ChangeNeverFails ==
    (op = "get_change" /\ WindowDays(data.period).err = "none") =>
        /\ err = "none"
        /\ (Len(data.closes) = 0 \/ data.closes[1] = 0) => ret = <<0, 0>>

\* C18: the Treynor ratio of a Position whose beta was set to 0, and the Sharpe ratio
\* of a Position, are returned without error, the former being exactly 0.0.
C18_ZeroBetaTreynorIsZero ==
    /\ (op = "get_treynor_ratio" /\ arg_amount = 0) => (err = "none" /\ ret = 0)
    /\ op = "get_sharpe_ratio" => err = "none"

\* C20: the price a Position's Change computes with equals the current price of the
\* Position's snapshot, after construction and after every refresh.
C20_ChangePriceIsSnapshotPrice ==
    \A i \in 1..Len(stocks) :
        stocks[i].value.change_price = stocks[i].value.current_price

\* the held tickers whose history answer has at least one row
WithHistory == {k \in Keys(stocks) : DOMAIN data[k].closes # {}}

\* C16: get_portfolio_history never raises, returns an empty series for an empty
\* Portfolio, and returns a non-empty series whenever at least one held ticker has a
\* non-empty history, whatever the other tickers' fetches gave.
C16_HistorySurvivesOneEmptyFetch ==
    op = "get_portfolio_history" =>
        /\ err = "none"
        /\ Len(stocks) = 0 => DOMAIN ret = {}
        /\ WithHistory # {} => DOMAIN ret # {}

\* C17: get_risk_reward_data never raises, whatever Positions the Portfolio holds.
C17_RiskRewardNeverFails ==
    op = "get_risk_reward_data" => (err = "none" /\ Len(ret) <= Len(stocks))

\* the dates on which ticker k has a row on or before date t
RowsUpTo(k, t) == {u \in DOMAIN data[k].closes : u <= t}

\* quantityHeld times the most recent close of k on or before t, 0 when there is none
FilledValue(k, t) ==
    IF RowsUpTo(k, t) = {}
    THEN 0
    ELSE LET u == CHOOSE x \in RowsUpTo(k, t) : \A y \in RowsUpTo(k, t) : y <= x IN
         data[k].closes[u] * Position(stocks, k).quantity_held

RECURSIVE FilledTotal(_, _)
FilledTotal(ks, t) ==
    IF ks = {}
    THEN 0
    ELSE LET k == CHOOSE x \in ks : TRUE IN FilledValue(k, t) + FilledTotal(ks \ {k}, t)

\* C19: the series of get_portfolio_history has a row for every date in the history
\* of any Position, and on each date holds the sum over Positions of quantity held
\* times the Position's most recent close on or before that date.
C19_HistoryIsForwardFilledUnion ==
    op = "get_portfolio_history" =>
        /\ DOMAIN ret = UNION {DOMAIN data[k].closes : k \in Keys(stocks)}
        /\ \A t \in DOMAIN ret : ret[t] = FilledTotal(Keys(stocks), t)

\* the holdings of ticker k that the last build loaded without error
Loaded(k) ==
    {i \in 1..Len(holdings) : holdings[i].ticker = k /\ ret[i] = "none"}

RECURSIVE SumQuantity(_)
SumQuantity(idx) ==
    IF idx = {}
    THEN 0
    ELSE LET i == CHOOSE x \in idx : TRUE IN holdings[i].quantity + SumQuantity(idx \ {i})

\* C21: build_portfolio_logic gives every holding its outcome, loads a holding of
\* positive quantity whose quote is available whatever failed before it, holds
\* exactly the tickers that had a successful holding, and holds of each the sum of the
\* quantities of its successful holdings.
C21_LoadSumsSuccessfulHoldings ==
    op = "build_portfolio_logic" =>
        /\ err = "none"
        /\ Len(ret) = Len(holdings)
        /\ \A i \in 1..Len(holdings) :
              (holdings[i].quantity > 0 /\ data[i] = FullSnapshot("Tech", 1))
                  => ret[i] = "none"
        /\ Keys(stocks) = {k \in LoadTickers : Loaded(k) # {}}
        /\ \A k \in Keys(stocks) :
              Position(stocks, k).quantity_held = SumQuantity(Loaded(k))

\* a failed holding is followed by two successful holdings of one ticker
C21_DuplicateLoadedAfterFailure ==
    /\ op = "build_portfolio_logic"
    /\ Len(holdings) = 3
    /\ ret[1] # "none" /\ ret[2] = "none" /\ ret[3] = "none"
    /\ holdings[2].ticker = holdings[3].ticker
    /\ Position(stocks, holdings[2].ticker).quantity_held
          = holdings[2].quantity + holdings[3].quantity

\* the quantity the row with primary key id has in hs (the row must exist)
QuantityOf(hs, id) == hs[CHOOSE i \in 1..Len(hs) : hs[i].id = id].quantity

Ids(hs) == {hs[i].id : i \in 1..Len(hs)}

\* C22: after a request to /add_stock or /sell_stock every persisted Holding has a
\* quantity above 0, a sell request has increased no Holding's quantity and an add
\* request has decreased none.
C22_HoldingsStayPositive ==
    op \in {"/add_stock", "/sell_stock"} =>
        /\ \A i \in 1..Len(holdings) : holdings[i].quantity > 0
        /\ \A id \in Ids(holdings) \cap Ids(pre_holdings) :
              /\ op = "/sell_stock"
                    => QuantityOf(holdings, id) <= QuantityOf(pre_holdings, id)
              /\ op = "/add_stock"
                    => QuantityOf(holdings, id) >= QuantityOf(pre_holdings, id)

====
